---- MODULE Spec2Model ----
(***************************************************************************)
(* Model of coc-translator's Display class (src/commands/display.ts):      *)
(* buildContent, winSize, popup, echo and replace, together with the part  *)
(* of the host (nvim) those methods talk to.                               *)
(*                                                                         *)
(* A string is a sequence of characters.  A character is a one-element     *)
(* TLA+ string; the three glyphs the code prefixes lines with are the      *)
(* characters "SPEAKER", "BOOK" and "MEMO".                                *)
(***************************************************************************)
EXTENDS Integers, Sequences, FiniteSets, TLC

VARIABLES
  trans,      \* the Translation handed to popup / echo / replace
  winConfig,  \* this.winConfig: [maxWidth, maxHeight]
  env,        \* workspace.env: [floating, textprop]
  entry,      \* the public method that was called
  pc,         \* where the call is: "idle", an await point, "done", "failed"
  content,    \* popup's / winSize's content array
  i,          \* winSize: number of lines already measured
  height,     \* winSize: running height, then popup's height
  width,      \* winSize: running width, then popup's width
  maxWidth,   \* winSize: resolved maxWidth
  maxHeight,  \* winSize: resolved maxHeight
  nvim,       \* everything sent to and answered by the host, in order
  messages,   \* what showMessage was called with, in order
  error,      \* "none", "host" (a rejected host call), "RangeError"
  calls,      \* replace: the calls made so far, "flush" (awaiting) or "done"
  host        \* replace: register a, the variable reg_tmp, the word under
              \* the cursor, the batches received and not yet executed

vars == <<trans, winConfig, env, entry, pc, content, i, height, width,
          maxWidth, maxHeight, nvim, messages, error, calls, host>>

replaceVars == <<calls, host>>

----------------------------------------------------------------------------
(* Strings *)

\* astral-plane glyphs: two UTF-16 code units, two display cells
Glyphs == {"SPEAKER", "BOOK", "MEMO"}
\* a double-width BMP character (CJK): one code unit, two display cells
Wide == {"W"}

Units(c) == IF c \in Glyphs THEN 2 ELSE 1
Cells(c) == IF c \in Glyphs \cup Wide THEN 2 ELSE 1

RECURSIVE Length(_)
\* String.prototype.length: UTF-16 code units
Length(s) == IF s = <<>> THEN 0 ELSE Units(Head(s)) + Length(Tail(s))

RECURSIVE strdisplaywidth(_)
\* the host function strdisplaywidth(): display cells
strdisplaywidth(s) ==
  IF s = <<>> THEN 0 ELSE Cells(Head(s)) + strdisplaywidth(Tail(s))

\* String.prototype.startsWith, for a prefix of one-unit characters
startsWith(s, prefix) ==
  /\ Len(s) >= Len(prefix)
  /\ SubSeq(s, 1, Len(prefix)) = prefix

\* String.prototype.repeat for a count >= 0 (a negative count throws)
repeat(c, n) == [k \in 1..n |-> c]

RECURSIVE join(_, _)
\* Array.prototype.join
join(strs, sep) ==
  IF strs = <<>> THEN <<>>
  ELSE IF Len(strs) = 1 THEN strs[1]
  ELSE strs[1] \o sep \o join(Tail(strs), sep)

RECURSIVE flatten(_)
flatten(seqs) == IF seqs = <<>> THEN <<>> ELSE Head(seqs) \o flatten(Tail(seqs))

Max(a, b) == IF a > b THEN a ELSE b

----------------------------------------------------------------------------
(* Inputs *)

MaxEngines == 2    \* most engines in trans.results
MaxLines == 3      \* most lines in the content handed to winSize directly

Str(n, c) == [k \in 1..n |-> c]

Texts == { <<"a">>, <<"a", "W">>, <<"a", "W", "a", "a", "a", "a">> }

\* EngineResult values: phonetic / paraphrase absent is the empty string
\* (both are falsy in the code's tests)
EngineResults ==
  { [engine |-> <<"e">>, phonetic |-> <<>>, paraphrase |-> <<"A">>,
     explain |-> <<>>],
    [engine |-> <<"W">>, phonetic |-> <<"b">>, paraphrase |-> <<"B">>,
     explain |-> <<>>],
    [engine |-> <<"e">>, phonetic |-> <<>>, paraphrase |-> <<>>,
     explain |-> << <<"x">>, Str(18, "y") >>],
    [engine |-> <<"g", "o", "o">>, phonetic |-> <<"c">>, paraphrase |-> <<>>,
     explain |-> << <<"z">> >>] }

SeqsUpTo(S, n) == UNION { [1..k -> S] : k \in 0..n }

Translations ==
  { [text |-> t, results |-> r] :
      t \in Texts, r \in SeqsUpTo(EngineResults, MaxEngines) }

\* the configured sizes: a positive cell count, or 0 for "60% of the viewport"
WinConfigs == [maxWidth : {0, 16, 19}, maxHeight : {0, 4}]
Envs == [floating : BOOLEAN, textprop : BOOLEAN]

\* what the host may answer for &columns and &lines
Columns == {10, 35}
Rows == {5, 40}

\* lines winSize may be handed when called on its own
Lines == { <<"a">>, Str(4, "a"), <<"W", "W", "a">>, Str(11, "a"),
           <<"BOOK", " ", "W">> }
Contents == SeqsUpTo(Lines, MaxLines)

NoTrans == [text |-> <<>>, results |-> <<>>]

\* the host before any replace: something in register a, reg_tmp not yet
\* set, a word under the cursor, nothing received
InitialHost ==
  [a |-> <<"r">>, reg_tmp |-> <<>>, word |-> <<"w">>, queue |-> <<>>,
   aborted |-> FALSE, completed |-> <<>>]

----------------------------------------------------------------------------
(* The host channel *)

Call(op, arg) == [op |-> op, arg |-> arg]
Return(v) == [op |-> "return", arg |-> v]
Rejected == [op |-> "error", arg |-> 0]

----------------------------------------------------------------------------
(* buildContent, lines 9-21 *)

Title(text) == <<"@", " ">> \o text \o <<" ", "@">>
Divider(engine) == Str(6, "-") \o <<" ">> \o engine \o <<" ">> \o Str(6, "-")

EngineLines(t) ==
  << <<" ">>, Divider(t.engine) >>
  \o (IF t.phonetic # <<>>
        THEN << <<"SPEAKER", " ", "[">> \o t.phonetic \o <<"]">> >>
        ELSE <<>>)
  \o (IF t.paraphrase # <<>>
        THEN << <<"BOOK", " ">> \o t.paraphrase >>
        ELSE <<>>)
  \o [k \in 1..Len(t.explain) |-> <<"MEMO", " ">> \o t.explain[k]]

buildContent(tr) ==
  << Title(tr.text) >>
  \o flatten([k \in 1..Len(tr.results) |-> EngineLines(tr.results[k])])

----------------------------------------------------------------------------
(* winSize, lines 23-48 *)

Pad == 2
RatioNum == 6
RatioDen == 10

\* Math.round(0.6 * n) for n >= 0
Round06(n) == (2 * RatioNum * n + RatioDen) \div (2 * RatioDen)

line_width(line) == strdisplaywidth(line) + Pad

\* the width assignment without the clamp to maxWidth
WidthStepNoClamp(w, lw, maxW) == Max(lw, w)

\* lines 38-44, the width assignment
WidthStep(w, lw, maxW) == IF lw > maxW THEN maxW ELSE Max(lw, w)

\* lines 38-44, the height assignment
HeightStep(h, lw, maxW) ==
  IF lw > maxW THEN h + (lw \div maxW) + 1 ELSE h + 1

\* the height returned as accumulated
ClampNone(h, maxH) == h

\* line 46
Clamp(h, maxH) == IF h > maxH THEN maxH ELSE h

winSizeCall ==
  /\ entry = "winSize" /\ pc = "idle"
  /\ pc' = "winSize"
  /\ UNCHANGED <<trans, winConfig, env, entry, content, i, height, width,
                 maxWidth, maxHeight, nvim, messages, error>>
  /\ UNCHANGED replaceVars

\* lines 24-29: the locals, and the &columns query when maxWidth is 0
winSizeBegin ==
  /\ pc = "winSize"
  /\ height' = 0 /\ width' = 0 /\ i' = 0
  /\ maxWidth' = winConfig.maxWidth
  /\ maxHeight' = winConfig.maxHeight
  /\ IF winConfig.maxWidth = 0
       THEN /\ nvim' = Append(nvim, Call("eval", <<"&columns">>))
            /\ pc' = "columns"
       ELSE /\ nvim' = nvim
            /\ pc' = "maxHeight"
  /\ UNCHANGED <<trans, winConfig, env, entry, content, messages, error>>
  /\ UNCHANGED replaceVars

\* lines 29-30: the host answers &columns
evalColumns ==
  /\ pc = "columns"
  /\ \E columns \in Columns :
       /\ nvim' = Append(nvim, Return(columns))
       /\ maxWidth' = Round06(columns)
  /\ pc' = "maxHeight"
  /\ UNCHANGED <<trans, winConfig, env, entry, content, i, height, width,
                 maxHeight, messages, error>>
  /\ UNCHANGED replaceVars

\* lines 32-33: the &lines query when maxHeight is 0
maxHeightCheck ==
  /\ pc = "maxHeight"
  /\ IF maxHeight = 0
       THEN /\ nvim' = Append(nvim, Call("eval", <<"&lines">>))
            /\ pc' = "lines"
       ELSE /\ nvim' = nvim
            /\ pc' = "loop"
  /\ UNCHANGED <<trans, winConfig, env, entry, content, i, height, width,
                 maxWidth, maxHeight, messages, error>>
  /\ UNCHANGED replaceVars

\* lines 33-34: the host answers &lines
evalLines ==
  /\ pc = "lines"
  /\ \E lines \in Rows :
       /\ nvim' = Append(nvim, Return(lines))
       /\ maxHeight' = Round06(lines)
  /\ pc' = "loop"
  /\ UNCHANGED <<trans, winConfig, env, entry, content, i, height, width,
                 maxWidth, messages, error>>
  /\ UNCHANGED replaceVars

\* lines 36-37 and 46-47: the next display-width query, or the clamp and
\* the return to the caller
loop ==
  /\ pc = "loop"
  /\ IF i < Len(content)
       THEN /\ nvim' = Append(nvim, Call("strdisplaywidth", content[i + 1]))
            /\ pc' = "measure"
            /\ height' = height
       ELSE /\ nvim' = nvim
            /\ height' = Clamp(height, maxHeight)
            /\ pc' = IF entry = "popup" THEN "center" ELSE "done"
  /\ UNCHANGED <<trans, winConfig, env, entry, content, i, width,
                 maxWidth, maxHeight, messages, error>>
  /\ UNCHANGED replaceVars

\* lines 37-45: the host answers strdisplaywidth, the line is accounted
measure ==
  /\ pc = "measure"
  /\ LET dw == strdisplaywidth(content[i + 1])
         lw == line_width(content[i + 1])
     IN  /\ nvim' = Append(nvim, Return(dw))
         /\ width' = WidthStep(width, lw, maxWidth)
         /\ height' = HeightStep(height, lw, maxWidth)
  /\ i' = i + 1
  /\ pc' = "loop"
  /\ UNCHANGED <<trans, winConfig, env, entry, content,
                 maxWidth, maxHeight, messages, error>>
  /\ UNCHANGED replaceVars

\* an awaited host call is rejected: the rejection propagates to the caller
AwaitPoints == {"columns", "lines", "measure", "create", "flush"}

\* a rejected call that is waited for again instead of failing the caller
hostErrorRetried ==
  /\ pc \in AwaitPoints
  /\ nvim' = Append(nvim, Rejected)
  /\ UNCHANGED <<trans, winConfig, env, entry, pc, content, i, height, width,
                 maxWidth, maxHeight, messages, error>>
  /\ UNCHANGED replaceVars

hostError ==
  /\ pc \in AwaitPoints
  /\ nvim' = Append(nvim, Rejected)
  /\ pc' = "failed"
  /\ error' = "host"
  /\ UNCHANGED <<trans, winConfig, env, entry, content, i, height, width,
                 maxWidth, maxHeight, messages>>
  /\ UNCHANGED replaceVars

----------------------------------------------------------------------------
(* popup, lines 50-88 *)

FoldColumn == 2

\* lines 51-53: build the content, return at once when it is empty,
\* otherwise enter winSize
popup ==
  /\ entry = "popup" /\ pc = "idle"
  /\ content' = buildContent(trans)
  /\ pc' = IF Len(content') = 0 THEN "done" ELSE "winSize"
  /\ UNCHANGED <<trans, winConfig, env, entry, i, height, width,
                 maxWidth, maxHeight, nvim, messages, error>>
  /\ UNCHANGED replaceVars

\* Math.floor((width - line.length) / 2)
padding(line, w) == (w - Length(line)) \div 2

\* line 56
IsShortDivider(line, w) ==
  startsWith(line, <<"-", "-", "-">>) /\ w > Length(line)

\* the centering of a divider without the extra filler for an odd rest
CenterLineEven(line, w) ==
  IF IsShortDivider(line, w)
    THEN repeat("-", padding(line, w)) \o line
         \o repeat("-", padding(line, w))
    ELSE IF startsWith(line, <<"@">>)
      THEN repeat(" ", padding(line, w)) \o line
      ELSE line

\* lines 55-63, one line of the centering pass
CenterLine(line, w) ==
  IF IsShortDivider(line, w)
    THEN repeat("-", padding(line, w)) \o line
         \o repeat("-", padding(line, w))
         \o repeat("-", (w - Length(line)) % 2)
    ELSE IF startsWith(line, <<"@">>)
      THEN repeat(" ", padding(line, w)) \o line
      ELSE line

\* line 62: ' '.repeat(padding) throws a RangeError for a negative count
RepeatThrows(line, w) ==
  /\ ~IsShortDivider(line, w)
  /\ startsWith(line, <<"@">>)
  /\ padding(line, w) < 0

\* lines 54-64: the centering pass, in index order, up to the first throw
center ==
  /\ pc = "center"
  /\ LET bad == {k \in 1..Len(content) : RepeatThrows(content[k], width)}
         first == CHOOSE k \in bad : \A m \in bad : k <= m
     IN  IF bad = {}
           THEN /\ content' = [k \in 1..Len(content) |->
                                 CenterLine(content[k], width)]
                /\ pc' = "render"
                /\ error' = error
           ELSE /\ content' = [k \in 1..Len(content) |->
                                 IF k < first
                                   THEN CenterLine(content[k], width)
                                   ELSE content[k]]
                /\ pc' = "failed"
                /\ error' = "RangeError"
  /\ UNCHANGED <<trans, winConfig, env, entry, i, height, width,
                 maxWidth, maxHeight, nvim, messages>>
  /\ UNCHANGED replaceVars

\* line 66
UseFloat(e) == e.floating \/ e.textprop

\* lines 67-78: the overlay, created with its one document
FloatCalls(c, h, w) ==
  << Call("FloatFactory.create",
          [modal |-> FALSE, height |-> h, width |-> w + FoldColumn,
           docs |-> << [content |-> join(c, <<"\n">>),
                        filetype |-> "translation"] >>]) >>

\* lines 80-86: the preview window, as one batch
PreviewCalls(c) ==
  << Call("pauseNotification", <<>>),
     Call("notify call", <<"coc#util#preview_info", c, "translation">>),
     Call("notify command", <<"redraw">>),
     Call("resumeNotification", <<>>) >>

\* the dispatch looking at the floating flag alone
RenderCallsFloatingOnly(c, h, w, e) ==
  IF e.floating THEN FloatCalls(c, h, w) ELSE PreviewCalls(c)

\* lines 66-87: what popup sends the host to show the content
RenderCalls(c, h, w, e) ==
  IF UseFloat(e) THEN FloatCalls(c, h, w) ELSE PreviewCalls(c)

render ==
  /\ pc = "render"
  /\ nvim' = nvim \o RenderCalls(content, height, width, env)
  /\ pc' = IF UseFloat(env) THEN "create" ELSE "flush"
  /\ UNCHANGED <<trans, winConfig, env, entry, content, i, height, width,
                 maxWidth, maxHeight, messages, error>>
  /\ UNCHANGED replaceVars

\* line 78: floatFactory.create resolves
created ==
  /\ pc = "create"
  /\ nvim' = Append(nvim, Return(0))
  /\ pc' = "done"
  /\ UNCHANGED <<trans, winConfig, env, entry, content, i, height, width,
                 maxWidth, maxHeight, messages, error>>
  /\ UNCHANGED replaceVars

\* line 86: resumeNotification resolves
flushed ==
  /\ pc = "flush"
  /\ nvim' = Append(nvim, Return(0))
  /\ pc' = "done"
  /\ UNCHANGED <<trans, winConfig, env, entry, content, i, height, width,
                 maxWidth, maxHeight, messages, error>>
  /\ UNCHANGED replaceVars

----------------------------------------------------------------------------
(* echo, lines 90-114 *)

RECURSIVE echoScan(_, _, _, _)
\* lines 96-111: the loop, with its three flags
echoScan(results, hasPhonetic, hasParaphrase, hasExplain) ==
  IF results = <<>> THEN <<>>
  ELSE LET t == Head(results)
           ph == t.phonetic # <<>> /\ ~hasPhonetic
           pa == t.paraphrase # <<>> /\ ~hasParaphrase
           ex == Len(t.explain) # 0 /\ ~hasExplain
       IN  (IF ph THEN << <<"[">> \o t.phonetic \o <<"]">> >> ELSE <<>>)
           \o (IF pa THEN << t.paraphrase >> ELSE <<>>)
           \o (IF ex THEN << join(t.explain, <<";", " ">>) >> ELSE <<>>)
           \o echoScan(Tail(results), hasPhonetic \/ ph,
                       hasParaphrase \/ pa, hasExplain \/ ex)

Arrow == <<" ", "=", "=", ">", " ">>

\* line 112
echoMessage(tr) ==
  tr.text \o Arrow \o join(echoScan(tr.results, FALSE, FALSE, FALSE), <<" ">>)

echo ==
  /\ entry = "echo" /\ pc = "idle"
  /\ messages' = Append(messages, echoMessage(trans))
  /\ pc' = "done"
  /\ UNCHANGED <<trans, winConfig, env, entry, content, i, height, width,
                 maxWidth, maxHeight, nvim, error>>
  /\ UNCHANGED replaceVars

----------------------------------------------------------------------------
(* replace, lines 116-129, and the host executing its batch *)

MaxCalls == 2      \* most calls of replace in one run

\* paraphrases with and without the quote character of the host language
ReplaceResults ==
  { [engine |-> <<"e">>, phonetic |-> <<>>, paraphrase |-> <<>>,
     explain |-> <<>>],
    [engine |-> <<"e">>, phonetic |-> <<>>, paraphrase |-> <<"h">>,
     explain |-> <<>>],
    [engine |-> <<"e">>, phonetic |-> <<>>, paraphrase |-> <<"i", "'", "s">>,
     explain |-> <<>>],
    [engine |-> <<"e">>, phonetic |-> <<>>,
     paraphrase |-> <<"o", "'", "'", "s">>, explain |-> <<>>] }

ReplaceTranslations ==
  { [text |-> <<"a">>, results |-> r] :
      r \in SeqsUpTo(ReplaceResults, MaxEngines) }

\* lines 120-123: the four deferred commands
SaveCmd == <<"let reg_tmp=@a">>
SetCmd(paraphrase) == <<"let @a=", "'">> \o paraphrase \o <<"'">>
PasteCmd == <<"normal! viw\"ap">>
RestoreCmd == <<"let @a=reg_tmp">>

\* lines 119-124: one batch
ReplaceBatch(paraphrase) ==
  << Call("pauseNotification", <<>>),
     Call("notify command", SaveCmd),
     Call("notify command", SetCmd(paraphrase)),
     Call("notify command", PasteCmd),
     Call("notify command", RestoreCmd),
     Call("resumeNotification", <<>>) >>

RECURSIVE replaceScanAll(_)
\* the loop without its return: a batch for every engine with a paraphrase
replaceScanAll(results) ==
  IF results = <<>> THEN <<>>
  ELSE (IF Head(results).paraphrase # <<>>
          THEN ReplaceBatch(Head(results).paraphrase) ELSE <<>>)
       \o replaceScanAll(Tail(results))

RECURSIVE replaceScan(_)
\* lines 117-127: what the loop sends, returning at the first paraphrase
replaceScan(results) ==
  IF results = <<>> THEN <<>>
  ELSE IF Head(results).paraphrase # <<>>
    THEN ReplaceBatch(Head(results).paraphrase)
    ELSE replaceScan(Tail(results))

NoParaphrase == <<"No paraphrase for replacement">>

\* the commands of the batches in a stretch of the channel
Batches(sent) ==
  LET cmds == SelectSeq(sent, LAMBDA e : e.op = "notify command")
  IN  [k \in 1..(Len(cmds) \div 4) |->
         [m \in 1..4 |-> cmds[4 * (k - 1) + m].arg]]

\* lines 116-129: a call of replace, up to its await or its end
replace ==
  /\ entry = "replace"
  /\ Len(calls) < MaxCalls
  /\ \E tr \in ReplaceTranslations :
       LET sent == replaceScan(tr.results)
       IN  /\ trans' = tr
           /\ nvim' = nvim \o sent
           /\ host' = [host EXCEPT !.queue = @ \o Batches(sent)]
           /\ IF sent = <<>>
                THEN /\ messages' = Append(messages, NoParaphrase)
                     /\ calls' = Append(calls, "done")
                ELSE /\ messages' = messages
                     /\ calls' = Append(calls, "flush")
  /\ UNCHANGED <<winConfig, env, entry, pc, content, i, height, width,
                 maxWidth, maxHeight, error>>

RECURSIVE literal(_)
\* the host reading a '...' string after its opening quote: '' stands for
\* one quote, a single quote ends the string and must end the command
literal(s) ==
  IF s = <<>> THEN [ok |-> FALSE, val |-> <<>>]
  ELSE IF Head(s) # "'"
    THEN LET rest == literal(Tail(s))
         IN  [ok |-> rest.ok, val |-> <<Head(s)>> \o rest.val]
  ELSE IF Len(s) = 1 THEN [ok |-> TRUE, val |-> <<>>]
  ELSE IF s[2] = "'"
    THEN LET rest == literal(Tail(Tail(s)))
         IN  [ok |-> rest.ok, val |-> <<"'">> \o rest.val]
  ELSE [ok |-> FALSE, val |-> <<>>]

\* the host executing one command; a failed command aborts the batch
exec(h, cmd) ==
  IF h.aborted THEN h
  ELSE IF cmd = SaveCmd THEN [h EXCEPT !.reg_tmp = h.a]
  ELSE IF cmd = PasteCmd THEN [h EXCEPT !.word = h.a]
  ELSE IF cmd = RestoreCmd THEN [h EXCEPT !.a = h.reg_tmp]
  ELSE LET v == literal(SubSeq(cmd, 3, Len(cmd)))
       IN  IF cmd[2] = "'" /\ v.ok
             THEN [h EXCEPT !.a = v.val]
             ELSE [h EXCEPT !.aborted = TRUE]

RECURSIVE execAll(_, _)
execAll(h, cmds) ==
  IF cmds = <<>> THEN h ELSE execAll(exec(h, Head(cmds)), Tail(cmds))

\* the host executing the oldest batch it holds, as one unit
execBatch(h) ==
  LET after == execAll([h EXCEPT !.aborted = FALSE], Head(h.queue))
  IN  [after EXCEPT !.queue = Tail(h.queue),
                    !.completed = Append(h.completed, ~after.aborted),
                    !.aborted = FALSE]

\* line 124: the host executes the oldest batch and answers; the call that
\* sent it returns
flushedReplace ==
  /\ host.queue # <<>>
  /\ host' = execBatch(host)
  /\ nvim' = Append(nvim, Return(0))
  /\ LET k == CHOOSE n \in 1..Len(calls) :
                /\ calls[n] = "flush"
                /\ \A m \in 1..(n - 1) : calls[m] = "done"
     IN  calls' = [calls EXCEPT ![k] = "done"]
  /\ UNCHANGED <<trans, winConfig, env, entry, pc, content, i, height, width,
                 maxWidth, maxHeight, messages, error>>

----------------------------------------------------------------------------
(* Specifications *)

InitCommon ==
  /\ pc = "idle"
  /\ i = 0 /\ height = 0 /\ width = 0 /\ maxWidth = 0 /\ maxHeight = 0
  /\ nvim = <<>> /\ messages = <<>> /\ error = "none"
  /\ calls = <<>> /\ host = InitialHost

\* a call of winSize with some content
InitWinSize ==
  /\ InitCommon
  /\ entry = "winSize"
  /\ trans = NoTrans
  /\ content \in Contents
  /\ winConfig \in WinConfigs
  /\ env = [floating |-> FALSE, textprop |-> FALSE]

winSizeSteps ==
  \/ winSizeBegin \/ evalColumns \/ maxHeightCheck \/ evalLines
  \/ loop \/ measure \/ hostError

NextWinSize == winSizeCall \/ winSizeSteps

SpecWinSize == InitWinSize /\ [][NextWinSize]_vars

\* a call of popup with some translation
InitPopup ==
  /\ InitCommon
  /\ entry = "popup"
  /\ trans \in Translations
  /\ content = <<>>
  /\ winConfig \in WinConfigs
  /\ env \in Envs

NextPopup ==
  \/ popup \/ winSizeSteps \/ center \/ render \/ created \/ flushed

SpecPopup == InitPopup /\ [][NextPopup]_vars

\* a call of echo with some translation
InitEcho ==
  /\ InitCommon
  /\ entry = "echo"
  /\ trans \in Translations
  /\ content = <<>>
  /\ winConfig = [maxWidth |-> 0, maxHeight |-> 0]
  /\ env = [floating |-> FALSE, textprop |-> FALSE]

NextEcho == echo

SpecEcho == InitEcho /\ [][NextEcho]_vars

\* calls of replace, each with some translation, not waiting for one
\* another, and the host executing what it receives
InitReplace ==
  /\ InitCommon
  /\ entry = "replace"
  /\ trans = NoTrans
  /\ content = <<>>
  /\ winConfig = [maxWidth |-> 0, maxHeight |-> 0]
  /\ env = [floating |-> FALSE, textprop |-> FALSE]

NextReplace == replace \/ flushedReplace

SpecReplace == InitReplace /\ [][NextReplace]_vars

----------------------------------------------------------------------------
(* Claims about winSize, checked under SpecWinSize *)

RECURSIVE MaxLineWidth(_)
MaxLineWidth(ls) ==
  IF ls = <<>> THEN 0
  ELSE Max(strdisplaywidth(Head(ls)) + 2, MaxLineWidth(Tail(ls)))

RECURSIVE RowSum(_, _)
RowSum(ls, maxW) ==
  IF ls = <<>> THEN 0
  ELSE LET w == strdisplaywidth(Head(ls)) + 2
       IN  (IF w <= maxW THEN 1 ELSE (w \div maxW) + 1)
           + RowSum(Tail(ls), maxW)

SomeOverflow(ls, maxW) ==
  \E k \in 1..Len(ls) : strdisplaywidth(ls[k]) + 2 > maxW

InLoop == pc \in {"loop", "measure", "done"}

\* C6: after any prefix of the lines, the running width is maxWidth if a
\* processed line overflowed (displayWidth + 2 > maxWidth), otherwise the
\* largest displayWidth + 2 among the processed lines (0 for none); it
\* never exceeds maxWidth.
C6_RunningWidth ==
  (InLoop /\ error = "none") =>
    LET done == SubSeq(content, 1, i)
    IN  /\ width = IF SomeOverflow(done, maxWidth)
                     THEN maxWidth
                     ELSE MaxLineWidth(done)
        /\ width <= maxWidth

\* an overflowing line was followed by two fitting lines; the width stayed
C6_Witness ==
  /\ pc = "loop" /\ i = 3 /\ Len(content) = 3
  /\ strdisplaywidth(content[1]) + 2 > maxWidth
  /\ strdisplaywidth(content[2]) + 2 < maxWidth
  /\ strdisplaywidth(content[3]) + 2 = maxWidth
  /\ width = maxWidth

\* C7: the height winSize returns is min(maxHeight, S), S the sum over the
\* lines of 1 for a fitting line (w <= maxWidth) and floor(w / maxWidth) + 1
\* for an overflowing one; so it never exceeds maxHeight.
C7_ReturnedHeight ==
  (pc = "done" /\ entry = "winSize") =>
    LET S == RowSum(content, maxWidth)
    IN  /\ height = IF S < maxHeight THEN S ELSE maxHeight
        /\ height <= maxHeight

\* clamped, with a line that exactly fits and a line that overflows
C7_Witness ==
  /\ pc = "done" /\ entry = "winSize"
  /\ RowSum(content, maxWidth) > maxHeight
  /\ height = maxHeight
  /\ \E k \in 1..Len(content) : strdisplaywidth(content[k]) + 2 = maxWidth
  /\ \E k \in 1..Len(content) : strdisplaywidth(content[k]) + 2 > maxWidth

----------------------------------------------------------------------------
(* Claims about popup, checked under SpecPopup *)

built == buildContent(trans)

\* the round trips of winSize, as the configuration and the content ask
ExpectedQueries ==
  LET b == built
  IN  (IF winConfig.maxWidth = 0 THEN << Call("eval", <<"&columns">>) >>
                                 ELSE <<>>)
      \o (IF winConfig.maxHeight = 0 THEN << Call("eval", <<"&lines">>) >>
                                     ELSE <<>>)
      \o [k \in 1..Len(b) |-> Call("strdisplaywidth", b[k])]

QueryOps == {"eval", "strdisplaywidth"}
RenderOps == {"FloatFactory.create", "pauseNotification", "notify call",
              "notify command", "resumeNotification"}
AnswerOps == {"return", "error"}

Queries(log) == SelectSeq(log, LAMBDA e : e.op \in QueryOps)
Renders(log) == SelectSeq(log, LAMBDA e : e.op \in RenderOps)

Centered == pc \in {"render", "create", "flush", "done"}
Rendered == pc \in {"create", "flush", "done"}
BeforeRender == {"idle", "winSize", "columns", "maxHeight", "lines", "loop",
                 "measure", "center", "render"}

\* C1: with an empty results list buildContent returns exactly the title
\* line, and popup makes no host call at all.
C1_EmptyResultsNoHostCall ==
  (entry = "popup" /\ trans.results = <<>>) =>
    /\ built = << Title(trans.text) >>
    /\ nvim = <<>>

\* C3: popup never raises an error in layout, centering or render
\* dispatch, and the title line reaches the renderer padded on the left by
\* floor((width - len) / 2) spaces when shorter than width, unchanged
\* otherwise.
C3_PopupNeverRaises ==
  /\ error # "RangeError"
  /\ Centered =>
       content[1] =
         IF Length(built[1]) < width
           THEN Str((width - Length(built[1])) \div 2, " ") \o built[1]
           ELSE built[1]

\* C5: the render step is either one overlay creation sized
\* (height, width + 2) with one document, all content lines joined by
\* newlines and tagged 'translation', and nothing else; or begin-batch,
\* show-info with the lines and the tag, redraw, flush, in this order, and
\* no overlay.  The capability flags choose: the overlay if either is set.
C5_RenderDispatch ==
  LET r == Renders(nvim)
  IN  /\ Rendered => r # <<>>
      /\ pc \in BeforeRender => r = <<>>
      /\ r # <<>> =>
           IF env.floating \/ env.textprop
             THEN /\ Len(r) = 1
                  /\ r[1].op = "FloatFactory.create"
                  /\ r[1].arg.height = height
                  /\ r[1].arg.width = width + 2
                  /\ Len(r[1].arg.docs) = 1
                  /\ r[1].arg.docs[1].filetype = "translation"
                  /\ r[1].arg.docs[1].content = join(content, <<"\n">>)
                  /\ Len(r[1].arg.docs[1].content)
                       = Len(flatten(content)) + Len(content) - 1
             ELSE /\ Len(r) = 4
                  /\ r[1].op = "pauseNotification"
                  /\ r[2].op = "notify call"
                  /\ r[2].arg = <<"coc#util#preview_info", content,
                                  "translation">>
                  /\ r[3].op = "notify command"
                  /\ r[3].arg = <<"redraw">>
                  /\ r[4].op = "resumeNotification"

\* the preview path ran to its end with more lines than the box is high
C5_Witness ==
  /\ pc = "done" /\ ~env.floating /\ ~env.textprop
  /\ Len(content) > height
  /\ Len(Renders(nvim)) = 4

\* C8: after the centering pass a '---' line shorter than width has
\* floor((width - len)/2) '-' added on each side and one more on the right
\* when width - len is odd, so its length is width; a '---' line of length
\* width or more is unchanged, a centered divider is a fixed point of the
\* pass, and a line starting with neither '---' nor '@' is unchanged.
C8_DividerCentering ==
  Centered =>
    /\ Len(content) = Len(built)
    /\ \A k \in 1..Len(built) :
         LET line == built[k]
             d == width - Length(line)
         IN  IF startsWith(line, <<"-", "-", "-">>)
               THEN /\ d > 0 =>
                         /\ content[k] = Str(d \div 2, "-") \o line
                                         \o Str(d - (d \div 2), "-")
                         /\ Length(content[k]) = width
                    /\ d <= 0 => content[k] = line
                    /\ CenterLine(content[k], width) = content[k]
               ELSE ~startsWith(line, <<"@">>) => content[k] = line

\* a divider padded by an odd amount of at least 3, next to a glyph line
C8_Witness ==
  /\ pc = "render"
  /\ \E k \in 1..Len(built) :
       /\ startsWith(built[k], <<"-", "-", "-">>)
       /\ width - Length(built[k]) >= 3
       /\ (width - Length(built[k])) % 2 = 1
       /\ content[k] # built[k]
  /\ \E k \in 1..Len(built) : Head(built[k]) \in Glyphs

\* C9: the host calls of popup happen one after another: &columns only
\* when the configured maxWidth is 0, &lines only when the configured
\* maxHeight is 0, one display-width query per content line in line order,
\* each sent only when the one before has been answered; a render command
\* is sent only when all of them have been answered; after a failed call
\* nothing more is sent and popup has failed.
C9_HostCallOrder ==
  LET exp == ExpectedQueries
      n == Len(exp)
  IN  /\ \A k \in 1..Len(nvim) :
           /\ (k <= 2 * n /\ k % 2 = 1) =>
                /\ nvim[k].op = exp[(k + 1) \div 2].op
                /\ nvim[k].arg = exp[(k + 1) \div 2].arg
           /\ (k <= 2 * n /\ k % 2 = 0) =>
                nvim[k].op = IF k < Len(nvim) THEN "return"
                             ELSE IF error = "host" THEN "error" ELSE "return"
           /\ k > 2 * n =>
                nvim[k].op \in RenderOps
                  \/ (k = Len(nvim) /\ nvim[k].op \in AnswerOps)
           /\ nvim[k].op = "error" => (k = Len(nvim) /\ pc = "failed")
      /\ (pc = "failed" /\ error = "host") => nvim[Len(nvim)].op = "error"

\* both viewport queries, then a query per line, then the render
C9_Witness ==
  /\ pc = "done"
  /\ winConfig.maxWidth = 0 /\ winConfig.maxHeight = 0
  /\ Len(built) >= 4
  /\ Len(Queries(nvim)) = Len(built) + 2

----------------------------------------------------------------------------
(* Claim about echo, checked under SpecEcho *)

First(S) == CHOOSE k \in S : \A m \in S : k <= m

\* the fragments in field order: phonetic, paraphrase, explain, each from
\* the first engine that has the field
FieldOrderFragments(tr) ==
  LET r == tr.results
      P == {k \in 1..Len(r) : r[k].phonetic # <<>>}
      A == {k \in 1..Len(r) : r[k].paraphrase # <<>>}
      E == {k \in 1..Len(r) : r[k].explain # <<>>}
  IN  (IF P # {} THEN << <<"[">> \o r[First(P)].phonetic \o <<"]">> >>
                 ELSE <<>>)
      \o (IF A # {} THEN << r[First(A)].paraphrase >> ELSE <<>>)
      \o (IF E # {} THEN << join(r[First(E)].explain, <<";", " ">>) >>
                    ELSE <<>>)

\* C2: echo surfaces exactly one message, '{text} ==> ' followed by the
\* fragments joined by single spaces, each field's fragment from the first
\* engine that has the field, the fragments in field order phonetic,
\* paraphrase, explain whichever engines supplied them.
C2_EchoFieldOrder ==
  (entry = "echo" /\ pc = "done") =>
    messages = << trans.text \o <<" ", "=", "=", ">", " ">>
                  \o join(FieldOrderFragments(trans), <<" ">>) >>

----------------------------------------------------------------------------
(* Claims about replace, checked under SpecReplace *)

WithParaphrase(tr) ==
  {k \in 1..Len(tr.results) : tr.results[k].paraphrase # <<>>}

\* C4: a call of replace sends, for the first engine with a non-empty
\* paraphrase, exactly begin-batch, save register a, set register a to that
\* paraphrase, paste over the word under the cursor, restore register a,
\* flush, in this order, and surfaces no message; with no paraphrase
\* anywhere it sends nothing and surfaces exactly one message.
C4_ReplaceBatch ==
  [][Len(calls') > Len(calls) =>
       IF WithParaphrase(trans') # {}
         THEN LET p == trans'.results[First(WithParaphrase(trans'))].paraphrase
              IN  /\ nvim' = nvim \o
                       << [op |-> "pauseNotification", arg |-> <<>>],
                          [op |-> "notify command",
                           arg |-> <<"let reg_tmp=@a">>],
                          [op |-> "notify command",
                           arg |-> <<"let @a=", "'">> \o p \o <<"'">>],
                          [op |-> "notify command",
                           arg |-> <<"normal! viw\"ap">>],
                          [op |-> "notify command",
                           arg |-> <<"let @a=reg_tmp">>],
                          [op |-> "resumeNotification", arg |-> <<>>] >>
                  /\ messages' = messages
         ELSE /\ nvim' = nvim
              /\ Len(messages') = Len(messages) + 1
              /\ calls'[Len(calls')] = "done"]_vars

\* the first engine has no paraphrase; the second engine's was sent, in
\* one batch, and no message was surfaced
C4_Witness ==
  /\ calls = <<"flush">>
  /\ Len(trans.results) >= 2
  /\ trans.results[1].paraphrase = <<>>
  /\ trans.results[2].paraphrase = <<"h">>
  /\ Len(nvim) = 6
  /\ nvim[3].arg = <<"let @a=", "'", "h", "'">>
  /\ messages = <<>>

SetCmds ==
  SelectSeq(nvim, LAMBDA e : e.op = "notify command" /\ e.arg[1] = "let @a=")

\* the paraphrase the last batch was sent for
LastChosen ==
  LET c == SetCmds[Len(SetCmds)].arg IN SubSeq(c, 3, Len(c) - 1)

\* C10: when the host has executed every batch completely, in the order
\* sent and each as one unit, register a holds what it held before the
\* first call and the word under the cursor is the chosen paraphrase; the
\* commands of two calls never interleave inside one batch.
C10_RegisterRestoredWordReplaced ==
  /\ \A k \in 1..Len(nvim) :
       nvim[k].op = "pauseNotification" =>
         /\ k + 5 <= Len(nvim)
         /\ \A m \in 1..4 : nvim[k + m].op = "notify command"
         /\ nvim[k + 5].op = "resumeNotification"
  /\ ( /\ host.queue = <<>>
       /\ host.completed # <<>>
       /\ \A k \in 1..Len(host.completed) : host.completed[k] ) =>
       /\ host.a = InitialHost.a
       /\ host.word = LastChosen

====
